---- MODULE Spec2Model ----
(***************************************************************************)
(* A model of the AutoAssistGroup helpdesk server: the MongoDB collections *)
(* tickets, replies, ticket_assignments and ticket_metadata, the inbound   *)
(* reply webhook (routes/webhook_routes.py), the ticket routes             *)
(* (routes/ticket_routes.py, routes/claim_document_routes.py) and the      *)
(* MongoDB wrapper methods they call (database.py).                        *)
(*                                                                         *)
(* Texts are sequences of lines.  A line is one of a few representative    *)
(* strings; the regular expressions of strip_email_quotes classify a line  *)
(* by its kind, so one representative per kind is kept.  Time is counted   *)
(* in whole minutes.  An ObjectId and the string that prints it are kept   *)
(* apart: Oid(x) and Str(x).                                               *)
(***************************************************************************)
EXTENDS Integers, Sequences, FiniteSets, TLC

VARIABLES
    now,                 \* datetime.now(), in minutes
    tickets,             \* collection tickets: ticket_id -> document
    replies,             \* collection replies: _id -> document
    ticket_assignments,  \* collection ticket_assignments: sequence of documents
    ticket_metadata,     \* collection ticket_metadata: set of documents
    members,             \* collection members: _id -> document
    next_oid,            \* the next ObjectId the driver generates for a reply
    resp,                \* the last request's answer (status code, JSON body, log line)
    clock,               \* time.time() and datetime.now() of the server process, in seconds
    threads,             \* the server's threads: thread -> the call it runs and its locals
    _cache_storage,      \* utils/cache.py: key -> <<value, expires>>
    _cache_lock,         \* utils/cache.py: the thread holding _cache_lock
    cache_latest,        \* history: key -> the latest cache_set not deleted or cleared since
    _rate_limit_storage, \* utils/cache.py: key -> list of timestamps
    _rate_limit_lock,    \* utils/cache.py: the thread holding _rate_limit_lock
    allowed,             \* history: the calls of rate_limit_check that returned True
    flask_session,       \* flask.session: the session of one browser
    disk,                \* the files of the upload folder: path -> content
    common_documents,    \* collection common_documents: _id -> document
    _webhook_status,     \* routes/webhook_routes.py: ticket_id -> status entry
    _webhook_lock        \* routes/webhook_routes.py: the thread holding _webhook_lock

\* the MongoDB collections and the answer of the last request
dbVars == <<now, tickets, replies, ticket_assignments, ticket_metadata, members,
            next_oid, resp>>

cacheVars == <<_cache_storage, _cache_lock, cache_latest>>
rateVars == <<_rate_limit_storage, _rate_limit_lock, allowed>>
fileVars == <<disk, common_documents>>
hookVars == <<_webhook_status, _webhook_lock>>

\* the state of the server process outside the collections
processVars == <<clock, threads, cacheVars, rateVars, flask_session, fileVars,
                 hookVars>>

vars == <<dbVars, processVars>>

----------------------------------------------------------------------------
(* Bounds of the model *)

MaxReplies == 2
MaxTime == 6
MaxClock == 2
MaxAllowed == 4
MaxSeconds == 362

(* Program constants *)

DupWindowMinutes == 2
DupScanLimit == 5
MergeWindowMinutes == 5
RefreshSeconds == 300
SecondsPerMinute == 60

----------------------------------------------------------------------------
(* Values *)

None == "none"

Oid(x) == [kind |-> "oid", v |-> x]
Str(x) == [kind |-> "str", v |-> x]
NoneV == [kind |-> "none", v |-> ""]

Min(a, b) == IF a <= b THEN a ELSE b

----------------------------------------------------------------------------
(* Texts: sequences of lines *)

Blank == ""
OnWroteLine == "On Mon, Bob <bob@x.org> wrote:"
OnLine == "On Mon, 3 Nov 2025, Bob"
WroteLine == "<bob@x.org> wrote:"
OriginalLine == "-----Original Message-----"
FromLine == "From: Bob"
SentLine == "Sent: Monday"
SeparatorLine == "_____"
QuotedLine == "> see you"
LongLine == "START AAAA...A END"
PreviewLine == "START AAAA...A"
PlainLines == {"Hi", "Thanks a lot"}

Lines == PlainLines \cup {Blank, OnWroteLine, OnLine, WroteLine, OriginalLine,
                          FromLine, SentLine, SeparatorLine, QuotedLine, LongLine,
                          PreviewLine}

\* len(line)
LineLen(l) ==
    CASE l = Blank -> 0
      [] l = "Hi" -> 2
      [] l = "Thanks a lot" -> 12
      [] l = OnWroteLine -> 30
      [] l = OnLine -> 23
      [] l = WroteLine -> 18
      [] l = OriginalLine -> 26
      [] l = FromLine -> 9
      [] l = SentLine -> 12
      [] l = SeparatorLine -> 5
      [] l = QuotedLine -> 9
      [] l = LongLine -> 5010
      [] l = PreviewLine -> 255

RECURSIVE SumLen(_)
SumLen(t) == IF t = <<>> THEN 0 ELSE LineLen(Head(t)) + SumLen(Tail(t))

\* len(text): the lines and the newlines between them
TextLen(t) == IF t = <<>> THEN 0 ELSE SumLen(t) + (Len(t) - 1)

RECURSIVE LStrip(_)
LStrip(t) == IF t # <<>> /\ Head(t) = Blank THEN LStrip(Tail(t)) ELSE t

RECURSIVE RStrip(_)
RStrip(t) ==
    IF t # <<>> /\ t[Len(t)] = Blank THEN RStrip(SubSeq(t, 1, Len(t) - 1)) ELSE t

\* str.strip()
Strip(t) == LStrip(RStrip(t))

RECURSIVE PopQuoted(_)
PopQuoted(t) ==
    IF t # <<>> /\ t[Len(t)] = QuotedLine THEN PopQuoted(SubSeq(t, 1, Len(t) - 1)) ELSE t

\* Pass 1 of strip_email_quotes: the first "\n\s*On ... wrote:" match, which may
\* span lines; the match needs a newline before "On", so line 1 cannot start it.
MultilineMatchStarts(t) ==
    {i \in 2..Len(t) :
        \/ t[i] = OnWroteLine
        \/ /\ t[i] = OnLine
           /\ \E j \in (i + 1)..Len(t) : t[j] \in {WroteLine, OnWroteLine}}

MultilineCut(t) ==
    IF MultilineMatchStarts(t) = {} THEN t
    ELSE LET i == CHOOSE k \in MultilineMatchStarts(t) :
                      \A m \in MultilineMatchStarts(t) : k <= m
         IN RStrip(SubSeq(t, 1, i - 1))

\* Pass 2 of strip_email_quotes: the per-line patterns
IsQuoteMarker(t, i) ==
    \/ t[i] = OnWroteLine
    \/ t[i] = OriginalLine
    \/ t[i] = FromLine /\ i + 1 <= Len(t) /\ t[i + 1] = SentLine
    \/ t[i] = SeparatorLine

CutIndex(t) ==
    IF \E i \in 1..Len(t) : IsQuoteMarker(t, i)
    THEN CHOOSE i \in 1..Len(t) :
            IsQuoteMarker(t, i) /\ \A j \in 1..(i - 1) : ~IsQuoteMarker(t, j)
    ELSE Len(t) + 1

\* strip_email_quotes that keeps a 255-character preview of a long line
StripEmailQuotesPreview(text) ==
    IF text = <<>> THEN <<>>
    ELSE LET t1 == MultilineCut(text)
             result_lines == SubSeq(t1, 1, CutIndex(t1) - 1)
             result == Strip(RStrip(PopQuoted(result_lines)))
         IN [i \in 1..Len(result) |->
                IF result[i] = LongLine THEN PreviewLine ELSE result[i]]

strip_email_quotes(text) ==
    IF text = <<>> THEN <<>>
    ELSE LET t1 == MultilineCut(text)
             result_lines == SubSeq(t1, 1, CutIndex(t1) - 1)
         IN Strip(RStrip(PopQuoted(result_lines)))

----------------------------------------------------------------------------
(* HTML bodies: sequences of elements.  "p" is <p>text</p>, "br" is text<br>, *)
(* "style" is <style>text</style>.                                            *)

HtmlElement(tag, text) == [tag |-> tag, text |-> text]

\* the lines an element leaves once tags are replaced; the last line of one
\* element and the first of the next are the same line
ElementLines(e) ==
    CASE e.tag = "p" -> <<Blank, e.text, Blank>>
      [] e.tag = "br" -> <<e.text, Blank>>
      [] e.tag = "style" -> <<Blank>>

RECURSIVE HtmlLines(_)
HtmlLines(h) ==
    IF h = <<>> THEN <<Blank>>
    ELSE LET first == ElementLines(Head(h))
             rest == HtmlLines(Tail(h))
         IN SubSeq(first, 1, Len(first) - 1) \o rest

\* re.sub(r'\n{3,}', '\n\n'): two or more blank lines in a row become one
RECURSIVE CollapseBlank(_)
CollapseBlank(t) ==
    IF Len(t) < 2 THEN t
    ELSE IF t[1] = Blank /\ t[2] = Blank THEN CollapseBlank(Tail(t))
    ELSE <<Head(t)>> \o CollapseBlank(Tail(t))

html_to_text(h) ==
    IF h = <<>> THEN <<>>
    ELSE LET lines == HtmlLines(h)
             \* the text before the first newline and after the last one
             inner == CollapseBlank(lines)
         IN Strip(inner)

----------------------------------------------------------------------------
(* Documents *)

TicketIds == {"T1", "T2"}
UnknownTicketId == "T9"
InvalidTicketId == "T 3"

MemberIds == {"m1", "m2", "td"}

\* a ticket as create_ticket stores it, without its timestamps (updated_at,
\* last_reply_at, forwarded_at, ...); a field the document lacks is None/NoneV
\* (FALSE for a flag)
NewTicket ==
    [status |-> "Open", is_important |-> FALSE,
     has_unread_reply |-> FALSE, message_id |-> None, threadId |-> None,
     assigned_to |-> NoneV, is_forwarded |-> FALSE, forwarded_to |-> NoneV,
     forwarded_by |-> NoneV, referred_to_director |-> FALSE, referred_by |-> NoneV,
     vhc_link |-> None]

\* {"$set": upd} on one document, for the fields the model keeps
SetFields(doc, upd) ==
    [f \in DOMAIN doc |-> IF f \in DOMAIN upd THEN upd[f] ELSE doc[f]]

\* MongoDB.update_ticket: update_one({"ticket_id": ticket_id}, {"$set": update_data})
\* with update_data['updated_at'] = now; no document matches an unknown ticket_id
update_ticket(tk, ticket_id, update_data, t) ==
    IF ticket_id \in DOMAIN tk
    THEN [tk EXCEPT ![ticket_id] =
             SetFields(@, [updated_at |-> t] @@ update_data)]
    ELSE tk

\* MongoDB.create_reply: created_at is overwritten, the document is inserted
create_reply(rp, oid, reply_data, t) ==
    (oid :> [reply_data EXCEPT !.created_at = t]) @@ rp

\* MongoDB.get_replies_by_ticket: the _ids of the replies find({"ticket_id": ...})
\* returns (the ascending sort on created_at orders them, it drops none)
get_replies_by_ticket(rp, ticket_id) ==
    {i \in DOMAIN rp : rp[i].ticket_id = ticket_id}

----------------------------------------------------------------------------
(* Sessions *)

NoSession == [member_id |-> None, member_role |-> None]

\* init_session: member_id = str(user['_id']), member_role = user['role']
SessionOf(m) == [member_id |-> m, member_role |-> members[m].role]

Sessions == {NoSession} \cup {SessionOf(m) : m \in DOMAIN members}

\* is_authenticated: 'member_id' in session
is_authenticated(session) == session.member_id # None

\* is_admin without the role list: any role passes
IsAdminAnyRole(session) == session.member_role # None

\* is_admin: the session role is one of the administrator roles
is_admin(session) == session.member_role \in {"Administrator", "Admin", "admin"}

----------------------------------------------------------------------------
(* Answers *)

Answer(op, code, message, ticket_id, reply_id, idempotent, log) ==
    [op |-> op, code |-> code, success |-> (code = 200), message |-> message,
     ticket_id |-> ticket_id, reply_id |-> reply_id, idempotent |-> idempotent,
     log |-> log]

NoAnswer == Answer("none", 0, "", None, 0, FALSE, "")

----------------------------------------------------------------------------
(* POST /api/webhook/reply *)

Nothing == <<>>
Some(x) == <<x>>

AbsentId == [kind |-> "absent", id |-> 0]   \* the key is not in the payload
NullId == [kind |-> "null", id |-> 0]       \* the key holds null or ""
BadId == [kind |-> "bad", id |-> 0]         \* a string ObjectId.is_valid rejects
GoodId(n) == [kind |-> "id", id |-> n]      \* str(ObjectId n)

\* PickLonger that forgets c.strip()
PickLongerUnstripped(message, candidate) ==
    IF candidate # Nothing /\ TextLen(candidate[1]) > TextLen(message)
    THEN candidate[1]
    ELSE message

\* the longer of the message so far and the stripped candidate
PickLonger(message, candidate) ==
    IF candidate # Nothing /\ TextLen(Strip(candidate[1])) > TextLen(message)
    THEN Strip(candidate[1])
    ELSE message

\* the longest plain-text candidate, then the HTML fallback
SelectMessage(req) ==
    LET plain == PickLonger(PickLonger(<<>>, req.body), req.message)
    IN IF /\ req.html # Nothing
          /\ req.html[1] # <<>>
          /\ TextLen(html_to_text(req.html[1])) > TextLen(plain)
       THEN html_to_text(req.html[1])
       ELSE plain

\* data.get('portal_reply_id', data.get('reply_id'))
PortalReplyId(req) ==
    IF req.portal_reply_id.kind = "absent" THEN req.reply_id ELSE req.portal_reply_id

\* the lookup with the string instead of ObjectId(portal_reply_id): no _id is a string
ExistingByStringId(rp, portal, ticket_id) ==
    {i \in DOMAIN rp : portal.kind = "str" /\ rp[i].ticket_id = ticket_id}

\* db.replies.find_one({'_id': ObjectId(portal_reply_id), 'ticket_id': ticket_id}),
\* asked only for a truthy portal_reply_id that ObjectId.is_valid accepts
ExistingByPortalId(rp, portal, ticket_id) ==
    {i \in DOMAIN rp : portal.kind = "id" /\ i = portal.id /\ rp[i].ticket_id = ticket_id}

\* db.replies.find({'ticket_id', 'created_at': {'$gte': cutoff}, 'sender_type': 'agent'})
RecentAgentReplies(rp, ticket_id, t) ==
    {i \in DOMAIN rp :
        /\ rp[i].ticket_id = ticket_id
        /\ rp[i].created_at >= t - DupWindowMinutes
        /\ rp[i].sender_type = "agent"}

\* every order .sort('created_at', -1) may give a set of replies (ties in any order)
RECURSIVE SortedDesc(_, _)
SortedDesc(rp, S) ==
    IF S = {} THEN {<<>>}
    ELSE UNION {{<<i>> \o rest : rest \in SortedDesc(rp, S \ {i})} :
                i \in {j \in S : \A k \in S : rp[j].created_at >= rp[k].created_at}}

\* FirstDuplicate that compares the stored message as it is, not stripped
FirstDuplicateUntrimmed(rp, order, message) ==
    LET scanned == SubSeq(order, 1, Min(DupScanLimit, Len(order)))
        hits == {n \in 1..Len(scanned) : rp[scanned[n]].message = Strip(message)}
    IN IF hits = {} THEN 0
       ELSE scanned[CHOOSE n \in hits : \A m \in hits : n <= m]

\* the first of the scanned replies whose stripped message is the stripped message
FirstDuplicate(rp, order, message) ==
    LET scanned == SubSeq(order, 1, Min(DupScanLimit, Len(order)))
        hits == {n \in 1..Len(scanned) : Strip(rp[scanned[n]].message) = Strip(message)}
    IN IF hits = {} THEN 0
       ELSE scanned[CHOOSE n \in hits : \A m \in hits : n <= m]

\* one attachment of the payload as the handler normalizes it: a dict keeps its
\* filename (or gets 'attachment'), a string becomes attachment.txt, the rest is skipped
NormalizeOne(att) ==
    CASE att.kind = "dict" -> <<IF att.filename = None THEN "attachment" ELSE att.filename>>
      [] att.kind = "str" -> <<"attachment.txt">>
      [] OTHER -> <<>>

RECURSIVE NormalizeAttachments(_)
NormalizeAttachments(raw) ==
    IF raw = <<>> THEN <<>>
    ELSE NormalizeOne(Head(raw)) \o NormalizeAttachments(Tail(raw))

\* MergeCandidates with the cutoff comparison turned round
MergeCandidatesBeforeCutoff(rp, ticket_id, t) ==
    {i \in DOMAIN rp :
        /\ rp[i].ticket_id = ticket_id
        /\ rp[i].created_at < t - MergeWindowMinutes
        /\ rp[i].sender_type = "webhook"
        /\ Len(rp[i].attachments) = 0}

\* the replies the merge check's find_one matches
MergeCandidates(rp, ticket_id, t) ==
    {i \in DOMAIN rp :
        /\ rp[i].ticket_id = ticket_id
        /\ rp[i].created_at >= t - MergeWindowMinutes
        /\ rp[i].sender_type = "webhook"
        /\ Len(rp[i].attachments) = 0}

\* find_one(..., sort=[('created_at', -1)]): a newest candidate
NewestOf(rp, S) == {i \in S : \A k \in S : rp[i].created_at >= rp[k].created_at}

\* the ticket after the message_id and threadId of the payload are saved
SaveThreading(tk, req, t) ==
    LET tk1 == IF req.message_id # Nothing
               THEN update_ticket(tk, req.ticket_id, [message_id |-> req.message_id[1]], t)
               ELSE tk
    IN IF req.threadId # Nothing
       THEN update_ticket(tk1, req.ticket_id, [threadId |-> req.threadId[1]], t)
       ELSE tk1

WebhookReject(code, message, ticket_id, log) ==
    /\ resp' = Answer("webhook_reply", code, message, ticket_id, 0, FALSE, log)
    /\ UNCHANGED <<processVars, now, tickets, replies, ticket_assignments, ticket_metadata,
                   members, next_oid>>

WebhookIdempotent(ticket_id, existing, log) ==
    /\ resp' = Answer("webhook_reply", 200, "Reply already exists (idempotent)",
                      ticket_id, existing, TRUE, log)
    /\ UNCHANGED <<processVars, now, tickets, replies, ticket_assignments, ticket_metadata,
                   members, next_oid>>

\* the merge that always takes the new message
MergedMessageAlwaysNew(stored, new_msg) == new_msg

\* the message of the reply after a merge: the new one only if it is longer than
\* the stored one, stripped
MergedMessage(stored, new_msg) ==
    IF TextLen(new_msg) > TextLen(Strip(stored)) THEN new_msg ELSE stored

\* the merge branch: attachments go to the existing reply, the message only if longer
WebhookMerge(req, message, attachments, existing) ==
    LET new_msg == Strip(strip_email_quotes(message))
        merged == [replies[existing] EXCEPT
                      !.attachments = attachments,
                      !.message = MergedMessage(@, new_msg)]
    IN /\ replies' = [replies EXCEPT ![existing] = merged]
       /\ tickets' = update_ticket(SaveThreading(tickets, req, now), req.ticket_id,
                                   [has_unread_reply |-> TRUE, last_reply_at |-> now], now)
       /\ resp' = Answer("webhook_reply", 200, "Attachments merged into existing reply",
                         req.ticket_id, existing, FALSE, "ATTACHMENTS MERGED")
       /\ UNCHANGED <<processVars, now, ticket_assignments, ticket_metadata, members, next_oid>>

\* the create branch
WebhookCreate(req, message, attachments) ==
    /\ next_oid <= MaxReplies
    /\ replies' = create_reply(replies, next_oid,
                               [ticket_id |-> req.ticket_id,
                                message |-> strip_email_quotes(message),
                                sender_type |-> "webhook",
                                attachments |-> attachments,
                                created_at |-> now], now)
    /\ next_oid' = next_oid + 1
    /\ tickets' = update_ticket(SaveThreading(tickets, req, now), req.ticket_id,
                                [has_unread_reply |-> TRUE, last_reply_at |-> now], now)
    /\ resp' = Answer("webhook_reply", 200, "Reply added successfully",
                      req.ticket_id, next_oid, FALSE, "REPLY SAVED")
    /\ UNCHANGED <<processVars, now, ticket_assignments, ticket_metadata, members>>

\* `for att in raw_attachments` raises on null; the handler answers 500 after the
\* threading fields were saved
WebhookCrash(req) ==
    /\ tickets' = SaveThreading(tickets, req, now)
    /\ resp' = Answer("webhook_reply", 500, "error", None, 0, FALSE, "WEBHOOK ERROR")
    /\ UNCHANGED <<processVars, now, replies, ticket_assignments, ticket_metadata, members, next_oid>>

webhook_reply(req) ==
    LET ticket_id == req.ticket_id
        message == SelectMessage(req)
        by_id == ExistingByPortalId(replies, PortalReplyId(req), ticket_id)
    IN
    IF ~req.has_data THEN
        WebhookReject(400, "No data received", None, "")
    ELSE IF ticket_id = None THEN
        WebhookReject(400, "ticket_id required", None, "")
    ELSE IF message = <<>> THEN
        WebhookReject(400, "message required", None, "NO MESSAGE")
    ELSE IF ticket_id \notin DOMAIN tickets THEN
        WebhookReject(404, "Ticket not found", None, "")
    ELSE IF by_id # {} THEN
        WebhookIdempotent(ticket_id, CHOOSE i \in by_id : TRUE, "IDEMPOTENT reply id")
    ELSE
        \E order \in SortedDesc(replies, RecentAgentReplies(replies, ticket_id, now)) :
            LET duplicate == FirstDuplicate(replies, order, message) IN
            IF duplicate # 0 THEN
                WebhookIdempotent(ticket_id, duplicate, "IDEMPOTENT same message")
            ELSE IF req.attachments.kind = "null" THEN
                WebhookCrash(req)
            ELSE
                LET attachments == NormalizeAttachments(req.attachments.items)
                    candidates == MergeCandidates(replies, ticket_id, now)
                IN IF attachments # <<>> /\ candidates # {}
                   THEN \E existing \in NewestOf(replies, candidates) :
                            WebhookMerge(req, message, attachments, existing)
                   ELSE WebhookCreate(req, message, attachments)

----------------------------------------------------------------------------
(* POST /api/tickets/<ticket_id>/reply *)

ReplyAnswer(code, message, ticket_id, reply_id) ==
    Answer("send_ticket_reply", code, message, ticket_id, reply_id, FALSE, "")

send_ticket_reply(session, ticket_id, message, attachments) ==
    IF ~is_authenticated(session) THEN
        /\ resp' = ReplyAnswer(401, "Authentication required", None, 0)
        /\ UNCHANGED <<processVars, now, tickets, replies, ticket_assignments, ticket_metadata,
                       members, next_oid>>
    ELSE IF ticket_id \notin DOMAIN tickets THEN
        /\ resp' = ReplyAnswer(404, "Ticket not found", None, 0)
        /\ UNCHANGED <<processVars, now, tickets, replies, ticket_assignments, ticket_metadata,
                       members, next_oid>>
    ELSE IF message = <<>> THEN
        /\ resp' = ReplyAnswer(400, "Message is required", None, 0)
        /\ UNCHANGED <<processVars, now, tickets, replies, ticket_assignments, ticket_metadata,
                       members, next_oid>>
    ELSE
        /\ next_oid <= MaxReplies
        /\ replies' = create_reply(replies, next_oid,
                                   [ticket_id |-> ticket_id,
                                    message |-> message,
                                    sender_type |-> "agent",
                                    attachments |-> attachments,
                                    created_at |-> now], now)
        /\ next_oid' = next_oid + 1
        /\ tickets' = update_ticket(tickets, ticket_id, [last_reply_at |-> now], now)
        /\ resp' = ReplyAnswer(200, "Reply sent successfully", ticket_id, next_oid)
        /\ UNCHANGED <<processVars, now, ticket_assignments, ticket_metadata, members>>

----------------------------------------------------------------------------
(* The clock *)

Wait(minutes) ==
    /\ now + minutes <= MaxTime
    /\ now' = now + minutes
    /\ resp' = NoAnswer
    /\ UNCHANGED <<processVars, tickets, replies, ticket_assignments, ticket_metadata, members, next_oid>>

----------------------------------------------------------------------------
(* Route answers and ids *)

RouteAnswer(op, code, message) == Answer(op, code, message, None, 0, FALSE, "")

\* a handler that answers and writes nothing
Refuse(op, code, message) ==
    /\ resp' = RouteAnswer(op, code, message)
    /\ UNCHANGED <<processVars, now, tickets, replies, ticket_assignments, ticket_metadata,
                   members, next_oid>>

\* validate_ticket_id: not empty, at most 50 characters, no space
validate_ticket_id(ticket_id) == ticket_id # None /\ ticket_id # InvalidTicketId

\* the strings ObjectId() accepts: the 24-digit hexadecimal form of an ObjectId
ObjectIdStrings == MemberIds

\* ObjectId(x) if isinstance(x, str), inside try/except: a string ObjectId()
\* rejects, and a value that is no string, stay as they are
ToObjectId(x) == IF x.kind = "str" /\ x.v \in ObjectIdStrings THEN Oid(x.v) ELSE x

\* str(x)
ToStr(x) == Str(x.v)

----------------------------------------------------------------------------
(* Forwarding: POST /api/tickets/<ticket_id>/assign and /tech-director *)

\* the first document of a sequence that has the ticket_id, 0 if none
FirstAssignment(ta, ticket_id) ==
    IF \E n \in 1..Len(ta) : ta[n].ticket_id = ticket_id
    THEN CHOOSE n \in 1..Len(ta) :
            /\ ta[n].ticket_id = ticket_id
            /\ \A m \in 1..(n - 1) : ta[m].ticket_id # ticket_id
    ELSE 0

\* MongoDB.assign_ticket: find_one + delete_one on the ticket_id, then insert_one
MongoDB_assign_ticket(ta, assignment_data) ==
    LET n == FirstAssignment(ta, assignment_data.ticket_id)
        kept == IF n = 0 THEN ta
                ELSE SubSeq(ta, 1, n - 1) \o SubSeq(ta, n + 1, Len(ta))
    IN Append(kept, assignment_data)

\* the query that matches forwarded_to against the string form only
GetForwardedByStringOnly(tk, member_id) ==
    {t \in DOMAIN tk :
        /\ tk[t].is_forwarded = TRUE
        /\ tk[t].forwarded_to = ToStr(member_id)}

\* MongoDB.get_forwarded_tickets_to_user: the ticket_ids the $match stage keeps
get_forwarded_tickets_to_user(tk, member_id) ==
    {t \in DOMAIN tk :
        /\ tk[t].is_forwarded = TRUE
        /\ tk[t].forwarded_to \in {ToObjectId(member_id), ToStr(member_id)}}

assign_ticket(session, ticket_id, is_forwarded, assigned_to) ==
    LET current_member_id == Str(session.member_id) IN
    IF ~is_authenticated(session) THEN
        Refuse("assign_ticket", 401, "Authentication required")
    ELSE IF ~validate_ticket_id(ticket_id) THEN
        Refuse("assign_ticket", 400, "Invalid ticket ID")
    ELSE IF ticket_id \notin DOMAIN tickets THEN
        Refuse("assign_ticket", 404, "Ticket not found")
    ELSE IF is_forwarded THEN
        IF assigned_to = None THEN
            Refuse("assign_ticket", 400, "Target member required for forwarding")
        ELSE
            LET target_member_id == ToObjectId(Str(assigned_to)) IN
            /\ ticket_assignments' = MongoDB_assign_ticket(ticket_assignments,
                    [ticket_id |-> ticket_id, member_id |-> target_member_id,
                     forwarded_from |-> ToObjectId(current_member_id),
                     is_forwarded |-> TRUE, is_seen |-> FALSE])
            /\ tickets' = update_ticket(tickets, ticket_id,
                    [is_forwarded |-> TRUE,
                     forwarded_by |-> ToObjectId(current_member_id),
                     forwarded_to |-> target_member_id,
                     status |-> "Open"], now)
            /\ resp' = RouteAnswer("assign_ticket", 200, "Ticket forwarded successfully")
            /\ UNCHANGED <<processVars, now, replies, ticket_metadata, members, next_oid>>
    ELSE
        /\ ticket_assignments' = MongoDB_assign_ticket(ticket_assignments,
                [ticket_id |-> ticket_id, member_id |-> ToObjectId(current_member_id),
                 forwarded_from |-> NoneV,
                 is_forwarded |-> FALSE, is_seen |-> TRUE])
        /\ tickets' = update_ticket(tickets, ticket_id,
                [assigned_to |-> current_member_id, status |-> "In Progress"], now)
        /\ resp' = RouteAnswer("assign_ticket", 200, "Ticket taken over successfully")
        /\ UNCHANGED <<processVars, now, replies, ticket_metadata, members, next_oid>>

\* db.members.find({'role': 'Technical Director', 'is_active': {'$ne': False}})
ActiveTechDirectors(mb) ==
    {m \in DOMAIN mb : mb[m].role = "Technical Director" /\ mb[m].is_active # FALSE}

refer_to_tech_director(session, ticket_id) ==
    LET current_member_id == Str(session.member_id) IN
    IF ~is_authenticated(session) THEN
        Refuse("refer_to_tech_director", 401, "Authentication required")
    ELSE IF ~validate_ticket_id(ticket_id) THEN
        Refuse("refer_to_tech_director", 400, "Invalid ticket ID")
    ELSE IF ActiveTechDirectors(members) = {} THEN
        Refuse("refer_to_tech_director", 404, "No Technical Director found")
    ELSE
        \E tech_director \in ActiveTechDirectors(members) :
            /\ tickets' = update_ticket(tickets, ticket_id,
                    [referred_to_director |-> TRUE,
                     referred_by |-> current_member_id,
                     status |-> "Referred to Tech Director",
                     is_forwarded |-> TRUE,
                     forwarded_to |-> Oid(tech_director),
                     forwarded_by |-> ToObjectId(current_member_id)], now)
            /\ resp' = RouteAnswer("refer_to_tech_director", 200,
                                   "Referred to Technical Director")
            /\ UNCHANGED <<processVars, now, replies, ticket_assignments, ticket_metadata,
                           members, next_oid>>

----------------------------------------------------------------------------
(* Other writers of a ticket *)

\* POST /api/tickets/<ticket_id>/important
toggle_ticket_importance(session, ticket_id) ==
    IF ~is_authenticated(session) THEN
        Refuse("toggle_ticket_importance", 401, "Authentication required")
    ELSE IF ~validate_ticket_id(ticket_id) THEN
        Refuse("toggle_ticket_importance", 400, "Invalid ticket ID")
    ELSE IF ticket_id \notin DOMAIN tickets THEN
        Refuse("toggle_ticket_importance", 404, "Ticket not found")
    ELSE
        /\ tickets' = update_ticket(tickets, ticket_id,
                [is_important |-> ~tickets[ticket_id].is_important], now)
        /\ resp' = RouteAnswer("toggle_ticket_importance", 200, "Importance updated")
        /\ UNCHANGED <<processVars, now, replies, ticket_assignments, ticket_metadata, members,
                       next_oid>>

\* PUT /api/tickets/<ticket_id>/vehicle-info: the handler never reads the session;
\* of the allowed fields the payload holds vhc_link or none
update_vehicle_info(session, ticket_id, vhc_link) ==
    IF ticket_id \notin DOMAIN tickets THEN
        Refuse("update_vehicle_info", 404, "Ticket not found")
    ELSE
        /\ tickets' = [tickets EXCEPT ![ticket_id] =
               SetFields(@, IF vhc_link = Nothing
                            THEN [updated_at |-> now]
                            ELSE [updated_at |-> now, vhc_link |-> vhc_link[1]])]
        /\ resp' = RouteAnswer("update_vehicle_info", 200,
                               "Vehicle information updated successfully")
        /\ UNCHANGED <<processVars, now, replies, ticket_assignments, ticket_metadata, members,
                       next_oid>>

----------------------------------------------------------------------------
(* Deleting tickets *)

\* delete_many({'ticket_id': {'$in': ticket_ids}}) on a collection kept as a function
DeleteManyFn(coll, ticket_ids) ==
    [i \in {j \in DOMAIN coll : coll[j].ticket_id \notin ticket_ids} |-> coll[i]]

\* the same on a collection kept as a sequence
DeleteManySeq(coll, ticket_ids) ==
    SelectSeq(coll, LAMBDA d : d.ticket_id \notin ticket_ids)

\* the same on a collection kept as a set
DeleteManySet(coll, ticket_ids) == {d \in coll : d.ticket_id \notin ticket_ids}

\* tickets.delete_one / delete_many on the ticket_id
DeleteTickets(tk, ticket_ids) == [t \in DOMAIN tk \ ticket_ids |-> tk[t]]

\* DELETE /api/tickets/<ticket_id>
delete_ticket(session, ticket_id) ==
    IF ~is_authenticated(session) THEN
        Refuse("delete_ticket", 401, "Authentication required")
    ELSE IF ~is_admin(session) THEN
        Refuse("delete_ticket", 403, "Admin access required")
    ELSE IF ~validate_ticket_id(ticket_id) THEN
        Refuse("delete_ticket", 400, "Invalid ticket ID")
    ELSE IF ticket_id \notin DOMAIN tickets THEN
        Refuse("delete_ticket", 404, "Ticket not found")
    ELSE
        /\ tickets' = DeleteTickets(tickets, {ticket_id})
        /\ resp' = RouteAnswer("delete_ticket", 200, "Ticket deleted successfully")
        /\ UNCHANGED <<processVars, now, replies, ticket_assignments, ticket_metadata, members,
                       next_oid>>

\* POST /api/tickets/bulk-delete
bulk_delete_tickets(session, ticket_ids) ==
    IF ~is_authenticated(session) THEN
        Refuse("bulk_delete_tickets", 401, "Authentication required")
    ELSE IF ~is_admin(session) THEN
        Refuse("bulk_delete_tickets", 403, "Admin access required")
    ELSE IF ticket_ids = {} THEN
        Refuse("bulk_delete_tickets", 400, "No ticket IDs provided")
    ELSE
        /\ tickets' = DeleteTickets(tickets, ticket_ids)
        /\ replies' = DeleteManyFn(replies, ticket_ids)
        /\ resp' = RouteAnswer("bulk_delete_tickets", 200, "tickets deleted successfully")
        /\ UNCHANGED <<processVars, now, ticket_assignments, ticket_metadata, members, next_oid>>

\* MongoDB.delete_ticket
MongoDB_delete_ticket(ticket_id) ==
    IF ticket_id \notin DOMAIN tickets THEN
        Refuse("MongoDB.delete_ticket", 404, "Ticket not found")
    ELSE
        /\ ticket_assignments' = DeleteManySeq(ticket_assignments, {ticket_id})
        /\ ticket_metadata' = DeleteManySet(ticket_metadata, {ticket_id})
        /\ replies' = DeleteManyFn(replies, {ticket_id})
        /\ tickets' = DeleteTickets(tickets, {ticket_id})
        /\ resp' = RouteAnswer("MongoDB.delete_ticket", 200, "Ticket deleted successfully")
        /\ UNCHANGED <<processVars, now, members, next_oid>>

\* MongoDB.set_ticket_metadata: the upsert on (ticket_id, key)
set_ticket_metadata(ticket_id, key, value) ==
    /\ ticket_metadata' =
           {d \in ticket_metadata : ~(d.ticket_id = ticket_id /\ d.key = key)}
           \cup {[ticket_id |-> ticket_id, key |-> key, value |-> value]}
    /\ resp' = RouteAnswer("MongoDB.set_ticket_metadata", 0, "")
    /\ UNCHANGED <<processVars, now, tickets, replies, ticket_assignments, members, next_oid>>

----------------------------------------------------------------------------
(* Inputs *)

TextHi == <<"Hi">>
TextThanks == <<"Thanks a lot">>
TextHiPadded == <<"Hi", Blank>>
TextBlank == <<Blank, Blank>>
TextHiQuoted == <<"Hi", Blank, OnWroteLine, QuotedLine>>
TextOnlyQuoted == <<OriginalLine, "Hi">>
TextLong == <<LongLine>>
TextLongPadded == <<Blank, LongLine, "Hi", Blank>>
TextLongSigned == <<LongLine, SeparatorLine, "Hi">>
HtmlThanks == <<HtmlElement("style", "Hi"), HtmlElement("p", "Thanks a lot")>>
HtmlStyleOnly == <<HtmlElement("style", "Hi")>>

NoAttachments == [kind |-> "absent", items |-> <<>>]
NullAttachments == [kind |-> "null", items |-> <<>>]
ListAttachments(items) == [kind |-> "list", items |-> items]

DictAttachment(filename) == [kind |-> "dict", filename |-> filename]
StringAttachment == [kind |-> "str", filename |-> None]
NumberAttachment == [kind |-> "num", filename |-> None]

BaseRequest ==
    [has_data |-> TRUE, ticket_id |-> "T1", body |-> Nothing, message |-> Some(TextHi),
     html |-> Nothing, portal_reply_id |-> AbsentId, reply_id |-> AbsentId,
     attachments |-> NoAttachments, message_id |-> Nothing, threadId |-> Nothing]

TextChoices ==
    {[body |-> Nothing, message |-> Nothing, html |-> Nothing],
     [body |-> Nothing, message |-> Some(TextBlank), html |-> Nothing],
     [body |-> Nothing, message |-> Nothing, html |-> Some(HtmlStyleOnly)],
     [body |-> Some(TextHiQuoted), message |-> Some(TextHi), html |-> Nothing],
     [body |-> Nothing, message |-> Some(TextOnlyQuoted), html |-> Nothing],
     [body |-> Nothing, message |-> Some(TextHi), html |-> Some(HtmlThanks)]}

IdChoices ==
    {[portal_reply_id |-> AbsentId, reply_id |-> GoodId(1)],
     [portal_reply_id |-> NullId, reply_id |-> GoodId(1)],
     [portal_reply_id |-> BadId, reply_id |-> AbsentId]}
    \cup {[portal_reply_id |-> GoodId(n), reply_id |-> AbsentId] : n \in 1..2}

AttachmentChoices ==
    {NoAttachments, NullAttachments,
     ListAttachments(<<DictAttachment("a.pdf")>>),
     ListAttachments(<<NumberAttachment>>),
     ListAttachments(<<StringAttachment, DictAttachment(None)>>)}

\* the payloads the webhook is sent
WebhookRequests ==
    {[BaseRequest EXCEPT !.has_data = FALSE]}
    \cup {[BaseRequest EXCEPT !.ticket_id = t, !.body = x.body, !.message = x.message,
                              !.html = x.html] :
            t \in {"T1", UnknownTicketId, None}, x \in TextChoices}
    \cup {[BaseRequest EXCEPT !.ticket_id = t, !.message = m,
                              !.portal_reply_id = i.portal_reply_id,
                              !.reply_id = i.reply_id] :
            t \in TicketIds, m \in {Nothing, Some(TextHi)}, i \in IdChoices}
    \cup {[BaseRequest EXCEPT !.message = Some(m), !.attachments = a] :
            m \in {TextHi, TextThanks}, a \in AttachmentChoices}
    \cup {[BaseRequest EXCEPT !.attachments = a, !.message_id = Some("<m1@x.org>"),
                              !.threadId = x] :
            a \in {NoAttachments, NullAttachments}, x \in {Nothing, Some("th1")}}
    \cup {[BaseRequest EXCEPT !.portal_reply_id = GoodId(1),
                              !.attachments = ListAttachments(<<DictAttachment("a.pdf")>>)]}

\* the payloads of the minute-by-minute specification
TimedRequests ==
    {[BaseRequest EXCEPT !.message = Some(m), !.attachments = a] :
        m \in {TextHi, TextThanks},
        a \in {NoAttachments, ListAttachments(<<DictAttachment("a.pdf")>>),
                ListAttachments(<<NumberAttachment>>)}}
    \cup {[BaseRequest EXCEPT !.portal_reply_id = GoodId(1),
                              !.attachments = ListAttachments(<<DictAttachment("a.pdf")>>)]}

AgentSessions == {NoSession, SessionOf("m2")}
AgentMessages == {<<>>, TextHiPadded}

\* the callers of the forwarding routes: nobody, a member, the Technical Director
Callers == {NoSession, SessionOf("m2"), SessionOf("td")}
ForwardTargets == {None, "td", "marc001"}
RouteTicketIds == TicketIds \cup {UnknownTicketId, InvalidTicketId}
ForwardTicketIds == {"T1", UnknownTicketId, InvalidTicketId}
VhcLinks == {Nothing, Some("https://vhc.example/1")}

----------------------------------------------------------------------------
(* Specifications *)

----------------------------------------------------------------------------
(* The server process: threads, locks, the clock *)

Threads == {"th1", "th2"}

\* no thread holds the lock
NoThread == "none"

\* a thread that runs no call
Idle == [pc |-> "idle"]

\* a dict, a defaultdict or a collection with no entry
EmptyMap == [k \in {} |-> None]

\* the dict d without key k
Without(d, k) == [x \in DOMAIN d \ {k} |-> d[x]]

\* d[k] = v
With(d, k, v) == [x \in DOMAIN d \cup {k} |-> IF x = k THEN v ELSE d[x]]

\* Lock.acquire that never blocks
CanAcquireHeld(lock) == TRUE

\* threading.Lock.acquire returns only when no thread holds the lock
CanAcquire(lock) == lock = NoThread

\* the session cookie of a browser that never logged in
EmptySession ==
    [member_id |-> None, member_role |-> None, permanent |-> FALSE,
     _last_refresh |-> Nothing]

\* the process after start-up: no thread runs, the dicts are empty
InitProcess ==
    /\ clock = 0
    /\ threads = [t \in Threads |-> Idle]
    /\ _cache_storage = EmptyMap
    /\ _cache_lock = NoThread
    /\ cache_latest = EmptyMap
    /\ _rate_limit_storage = EmptyMap
    /\ _rate_limit_lock = NoThread
    /\ allowed = <<>>
    /\ flask_session = EmptySession
    /\ disk = EmptyMap
    /\ common_documents = EmptyMap
    /\ _webhook_status = EmptyMap
    /\ _webhook_lock = NoThread

InitMembers ==
    [m \in MemberIds |->
        CASE m = "m1" -> [role |-> "Administrator", is_active |-> TRUE]
          [] m = "m2" -> [role |-> "Member", is_active |-> TRUE]
          [] m = "td" -> [role |-> "Technical Director", is_active |-> TRUE]]

InitCollections ==
    /\ now = 0
    /\ tickets = [t \in TicketIds |-> NewTicket]
    /\ replies = <<>>
    /\ ticket_assignments = <<>>
    /\ ticket_metadata = {}
    /\ next_oid = 1
    /\ resp = NoAnswer
    /\ InitProcess

\* the reply webhook and the portal's reply route, all payloads, within one minute
InitWebhook == InitCollections /\ members = InitMembers

NextWebhook ==
    \/ \E req \in WebhookRequests : webhook_reply(req)
    \/ \E session \in AgentSessions, ticket_id \in TicketIds \cup {UnknownTicketId},
          message \in AgentMessages :
            send_ticket_reply(session, ticket_id, message, <<>>)

SpecWebhook == InitWebhook /\ [][NextWebhook]_vars

\* the 2-minute and 5-minute windows of the webhook, minute by minute, on one ticket
NextWebhookTimed ==
    \/ \E req \in TimedRequests : webhook_reply(req)
    \/ \E session \in AgentSessions : send_ticket_reply(session, "T1", TextHiPadded, <<>>)
    \/ Wait(1)

SpecWebhookTimed == InitWebhook /\ [][NextWebhookTimed]_vars

\* forwarding and the other writers of a ticket; the Technical Director may
\* have been deactivated
InitTickets ==
    /\ now = 0
    /\ tickets = [t \in {"T1"} |-> NewTicket]
    /\ replies = <<>>
    /\ ticket_assignments = <<>>
    /\ ticket_metadata = {}
    /\ next_oid = 1
    /\ resp = NoAnswer
    /\ InitProcess
    /\ \E active \in BOOLEAN :
          members = [InitMembers EXCEPT !["td"].is_active = active]

NextTickets ==
    \/ \E session \in Callers, ticket_id \in ForwardTicketIds,
          is_forwarded \in BOOLEAN, assigned_to \in ForwardTargets :
            assign_ticket(session, ticket_id, is_forwarded, assigned_to)
    \/ \E session \in Callers, ticket_id \in ForwardTicketIds :
            refer_to_tech_director(session, ticket_id)
    \/ \E session \in Callers, ticket_id \in ForwardTicketIds :
            toggle_ticket_importance(session, ticket_id)
    \/ \E session \in AgentSessions, ticket_id \in ForwardTicketIds,
          vhc_link \in VhcLinks :
            update_vehicle_info(session, ticket_id, vhc_link)

SpecTickets == InitTickets /\ [][NextTickets]_vars

\* deleting tickets that have replies, an assignment and metadata
NextDelete ==
    \/ \E session \in Sessions, ticket_id \in RouteTicketIds :
            delete_ticket(session, ticket_id)
    \/ \E session \in Sessions, ticket_ids \in SUBSET (TicketIds \cup {UnknownTicketId}) :
            bulk_delete_tickets(session, ticket_ids)
    \/ \E ticket_id \in TicketIds \cup {UnknownTicketId} :
            MongoDB_delete_ticket(ticket_id)
    \/ \E session \in AgentSessions, ticket_id \in TicketIds :
            send_ticket_reply(session, ticket_id, TextHi, <<>>)
    \/ \E session \in AgentSessions, ticket_id \in TicketIds :
            assign_ticket(session, ticket_id, FALSE, None)
    \/ \E ticket_id \in TicketIds : set_ticket_metadata(ticket_id, "draft", "v1")

SpecDelete == InitWebhook /\ [][NextDelete]_vars

\* the payloads whose only text field is `message`, among them the 5,010
\* characters of test_webhook_truncation.py, with and without an attachment
MessageOnlyTexts == {TextHi, TextLong, TextLongPadded, TextLongSigned, TextHiQuoted}

MessageOnlyRequests ==
    {[BaseRequest EXCEPT !.message = Some(m), !.attachments = a] :
        m \in MessageOnlyTexts,
        a \in {NoAttachments, ListAttachments(<<DictAttachment("a.pdf")>>)}}

NextLongMessage ==
    \/ \E req \in MessageOnlyRequests : webhook_reply(req)
    \/ \E session \in AgentSessions : send_ticket_reply(session, "T1", TextLong, <<>>)

SpecLongMessage == InitWebhook /\ [][NextLongMessage]_vars

----------------------------------------------------------------------------
(* utils/cache.py: the in-memory cache *)

CacheKeys == {"k1", "k2"}
CacheValues == {"v1", "v2"}
ExpiresIn == {1, 2}

\* the default argument of cache_get
Default == "default"

\* time.time() moves on; any thread may be anywhere in its call
Tick ==
    /\ clock < MaxClock
    /\ clock' = clock + 1
    /\ UNCHANGED <<dbVars, threads, cacheVars, rateVars, flask_session, fileVars,
                   hookVars>>

\* what the cache calls leave alone
CacheFrame == UNCHANGED <<now, tickets, replies, ticket_assignments, ticket_metadata,
                          members, next_oid, clock, rateVars, flask_session, fileVars,
                          hookVars>>

\* a thread enters one of the four calls and waits for _cache_lock
CacheCall(t, op, key, value, expires_in) ==
    /\ threads[t] = Idle
    /\ threads' = [threads EXCEPT ![t] =
                      [pc |-> "acquire", op |-> op, key |-> key, value |-> value,
                       expires_in |-> expires_in]]
    /\ UNCHANGED <<resp, cacheVars>>
    /\ CacheFrame

\* the call returns: with _cache_lock: __exit__
CacheReturn(t) ==
    /\ _cache_lock' = NoThread
    /\ threads' = [threads EXCEPT ![t] = Idle]

\* the value cache_get hands to its caller
CacheGetReturn(t, value) ==
    /\ CacheReturn(t)
    /\ resp' = [op |-> "cache_get", key |-> threads[t].key, value |-> value]

\* cache_get: with _cache_lock: if key in _cache_storage:
\*     value, expires = _cache_storage[key]
CacheGetLookup(t) ==
    /\ threads[t].pc = "acquire" /\ threads[t].op = "cache_get"
    /\ CanAcquire(_cache_lock)
    /\ IF threads[t].key \in DOMAIN _cache_storage
       THEN /\ _cache_lock' = t
            /\ threads' = [threads EXCEPT ![t] =
                              [pc |-> "check", op |-> "cache_get", key |-> @.key,
                               entry |-> _cache_storage[@.key]]]
            /\ UNCHANGED <<resp, _cache_storage, cache_latest>>
       ELSE /\ CacheGetReturn(t, Default)
            /\ UNCHANGED <<_cache_storage, cache_latest>>
    /\ CacheFrame

\* cache_get: if time.time() < expires: return value; else del; return default
CacheGetCheck(t) ==
    /\ threads[t].pc = "check"
    /\ IF clock < threads[t].entry.expires
       THEN /\ CacheGetReturn(t, threads[t].entry.value)
            /\ UNCHANGED <<_cache_storage, cache_latest>>
       ELSE /\ CacheGetReturn(t, IF threads[t].key \in DOMAIN _cache_storage
                                 THEN Default ELSE "KeyError")
            /\ _cache_storage' = Without(_cache_storage, threads[t].key)
            /\ UNCHANGED cache_latest
    /\ CacheFrame

\* cache_set: with _cache_lock:
\*     _cache_storage[key] = (value, time.time() + expires_in)
CacheSetBody(t) ==
    /\ threads[t].pc = "acquire" /\ threads[t].op = "cache_set"
    /\ CanAcquire(_cache_lock)
    /\ LET entry == [value |-> threads[t].value,
                     expires |-> clock + threads[t].expires_in]
       IN /\ _cache_storage' = With(_cache_storage, threads[t].key, entry)
          /\ cache_latest' = With(cache_latest, threads[t].key, entry)
    /\ CacheReturn(t)
    /\ UNCHANGED resp
    /\ CacheFrame

\* cache_delete: with _cache_lock: del _cache_storage[key] if the key is there
CacheDeleteBody(t) ==
    /\ threads[t].pc = "acquire" /\ threads[t].op = "cache_delete"
    /\ CanAcquire(_cache_lock)
    /\ _cache_storage' = Without(_cache_storage, threads[t].key)
    /\ cache_latest' = Without(cache_latest, threads[t].key)
    /\ CacheReturn(t)
    /\ UNCHANGED resp
    /\ CacheFrame

\* cache_clear: with _cache_lock: _cache_storage.clear()
CacheClearBody(t) ==
    /\ threads[t].pc = "acquire" /\ threads[t].op = "cache_clear"
    /\ CanAcquire(_cache_lock)
    /\ _cache_storage' = EmptyMap
    /\ cache_latest' = EmptyMap
    /\ CacheReturn(t)
    /\ UNCHANGED resp
    /\ CacheFrame

cache_get(t, key) == CacheCall(t, "cache_get", key, None, 0)
cache_set(t, key, value, expires_in) == CacheCall(t, "cache_set", key, value, expires_in)
cache_delete(t, key) == CacheCall(t, "cache_delete", key, None, 0)
cache_clear(t) == CacheCall(t, "cache_clear", None, None, 0)

\* the threads of the server call the cache in any interleaving
NextCache ==
    \/ \E t \in Threads, key \in CacheKeys : cache_get(t, key)
    \/ \E t \in Threads, key \in CacheKeys, value \in CacheValues,
          expires_in \in ExpiresIn : cache_set(t, key, value, expires_in)
    \/ \E t \in Threads, key \in CacheKeys : cache_delete(t, key)
    \/ \E t \in Threads : cache_clear(t)
    \/ \E t \in Threads : CacheGetLookup(t)
    \/ \E t \in Threads : CacheGetCheck(t)
    \/ \E t \in Threads : CacheSetBody(t)
    \/ \E t \in Threads : CacheDeleteBody(t)
    \/ \E t \in Threads : CacheClearBody(t)
    \/ Tick

SpecCache == InitWebhook /\ [][NextCache]_vars

----------------------------------------------------------------------------
(* utils/cache.py: the rate limiter *)

RateKeys == {"ip1"}
RateLimits == {2}
RateWindows == {2}

\* what the rate limiter leaves alone
RateFrame == UNCHANGED <<now, tickets, replies, ticket_assignments, ticket_metadata,
                         members, next_oid, clock, cacheVars, flask_session, fileVars,
                         hookVars>>

\* _rate_limit_storage[key] of a defaultdict(list)
Timestamps(key) ==
    IF key \in DOMAIN _rate_limit_storage THEN _rate_limit_storage[key] ELSE <<>>

\* [timestamp for timestamp in stamps if current_time - timestamp < window]
RECURSIVE InsideWindow(_, _, _)
InsideWindow(stamps, current_time, window) ==
    IF stamps = <<>> THEN <<>>
    ELSE IF current_time - Head(stamps) < window
         THEN <<Head(stamps)>> \o InsideWindow(Tail(stamps), current_time, window)
         ELSE InsideWindow(Tail(stamps), current_time, window)

\* rate_limit_check: current_time = time.time(), read before the lock is taken
rate_limit_check(t, key, limit, window) ==
    /\ threads[t] = Idle
    /\ Len(allowed) < MaxAllowed
    /\ threads' = [threads EXCEPT ![t] =
                      [pc |-> "acquire", op |-> "rate_limit_check", key |-> key,
                       limit |-> limit, window |-> window, current_time |-> clock]]
    /\ UNCHANGED <<resp, rateVars>>
    /\ RateFrame

\* with _rate_limit_lock: remove the entries outside the window
RatePrune(t) ==
    /\ threads[t].pc = "acquire" /\ threads[t].op = "rate_limit_check"
    /\ CanAcquire(_rate_limit_lock)
    /\ _rate_limit_lock' = t
    /\ _rate_limit_storage' =
           With(_rate_limit_storage, threads[t].key,
                InsideWindow(Timestamps(threads[t].key), threads[t].current_time,
                             threads[t].window))
    /\ threads' = [threads EXCEPT ![t].pc = "check"]
    /\ UNCHANGED <<resp, allowed>>
    /\ RateFrame

\* if len(_rate_limit_storage[key]) >= limit: return False; else append the
\* timestamp and return True; the lock is released
RateCheck(t) ==
    /\ threads[t].pc = "check" /\ threads[t].op = "rate_limit_check"
    /\ _rate_limit_lock' = NoThread
    /\ threads' = [threads EXCEPT ![t] = Idle]
    /\ IF Len(Timestamps(threads[t].key)) >= threads[t].limit
       THEN /\ resp' = [op |-> "rate_limit_check", key |-> threads[t].key,
                        value |-> FALSE]
            /\ UNCHANGED <<_rate_limit_storage, allowed>>
       ELSE /\ resp' = [op |-> "rate_limit_check", key |-> threads[t].key,
                        value |-> TRUE]
            /\ _rate_limit_storage' =
                   With(_rate_limit_storage, threads[t].key,
                        Append(Timestamps(threads[t].key), threads[t].current_time))
            /\ allowed' = Append(allowed,
                                 [key |-> threads[t].key, limit |-> threads[t].limit,
                                  window |-> threads[t].window,
                                  time |-> threads[t].current_time])
    /\ RateFrame

\* the threads of the server check the rate limit of one caller
NextRate ==
    \/ \E t \in Threads, key \in RateKeys, limit \in RateLimits, window \in RateWindows :
            rate_limit_check(t, key, limit, window)
    \/ \E t \in Threads : RatePrune(t)
    \/ \E t \in Threads : RateCheck(t)
    \/ Tick

SpecRate == InitWebhook /\ [][NextRate]_vars

----------------------------------------------------------------------------
(* middleware/session_manager.py: the session of one browser *)

\* what the session calls leave alone
SessionFrame == UNCHANGED <<now, tickets, replies, ticket_assignments, ticket_metadata,
                            members, next_oid, threads, cacheVars, rateVars, fileVars,
                            hookVars>>

\* time passes between two requests of the browser
Pass(seconds) ==
    /\ clock + seconds <= MaxSeconds
    /\ clock' = clock + seconds
    /\ UNCHANGED <<dbVars, threads, cacheVars, rateVars, flask_session, fileVars,
                   hookVars>>

\* init_session: the session after a login
init_session(m) ==
    /\ flask_session' = [flask_session EXCEPT !.member_id = m,
                                              !.member_role = members[m].role,
                                              !.permanent = TRUE]
    /\ resp' = [op |-> "init_session", wrote |-> FALSE, previous |-> Nothing]
    /\ UNCHANGED clock
    /\ SessionFrame

\* clear_session: session.clear() at logout
clear_session ==
    /\ flask_session' = EmptySession
    /\ resp' = [op |-> "clear_session", wrote |-> FALSE, previous |-> Nothing]
    /\ UNCHANGED clock
    /\ SessionFrame

\* now_str[:16]: an ISO timestamp cut after its minutes
MinutePortion(seconds) == seconds \div SecondsPerMinute

\* needs_refresh that also refreshes after exactly five minutes
NeedsRefreshAtLeast(last_refresh, now2) == now2 - last_refresh >= RefreshSeconds

\* diff = (datetime.now() - last_dt).total_seconds(); needs_refresh = diff > 300
NeedsRefresh(last_refresh, now2) == now2 - last_refresh > RefreshSeconds

\* refresh_session: it reads the clock for now_str and, `delay` seconds later, a
\* second time for diff; it writes now_str
refresh_session(delay) ==
    /\ clock + delay <= MaxSeconds
    /\ clock' = clock + delay
    /\ LET last_refresh == flask_session._last_refresh
           now_str == clock
           needs_refresh ==
               \/ last_refresh = Nothing
               \/ /\ MinutePortion(now_str) # MinutePortion(last_refresh[1])
                  /\ NeedsRefresh(last_refresh[1], clock + delay)
       IN IF flask_session.member_id = None
          THEN /\ resp' = [op |-> "refresh_session", wrote |-> FALSE,
                           previous |-> Nothing]
               /\ UNCHANGED flask_session
          ELSE /\ flask_session' =
                     [flask_session EXCEPT !.permanent = TRUE,
                                           !._last_refresh =
                                               IF needs_refresh THEN Some(now_str) ELSE @]
               /\ resp' = [op |-> "refresh_session", wrote |-> needs_refresh,
                           previous |-> last_refresh]
    /\ SessionFrame

\* the longest time between the two clock readings of one call
MaxDelay == 1

PassSeconds == {1, 59, 240}

NextSession ==
    \/ \E m \in {"m2"} : init_session(m)
    \/ clear_session
    \/ \E delay \in 0..MaxDelay : refresh_session(delay)
    \/ \E seconds \in PassSeconds : Pass(seconds)

SpecSession == InitWebhook /\ [][NextSession]_vars

----------------------------------------------------------------------------
(* Attachment downloads: routes/reply_routes.py, routes/attachment_routes.py,
   routes/ticket_routes.py.  Here an attachment keeps the fields that say where
   its bytes are; file contents are named by a letter. *)

\* base64.b64encode(content)
B64(content) == [b64 |-> content]

\* a string base64.b64decode raises on
BadB64 == [b64 |-> "incorrect padding"]

\* base64.b64decode inside try/except: the bytes, or nothing when it raised
Decode(base64_data) == IF base64_data = BadB64 THEN Nothing ELSE Some(base64_data.b64)

\* one stored attachment; a common-document attachment has type
\* 'common-document' and ref = document_id
Attachment(data, fileData, file_path, document_id) ==
    [filename |-> "a.pdf", data |-> data, fileData |-> fileData,
     file_path |-> file_path, document_id |-> document_id]

\* the forms send_ticket_reply, the ticket form and the webhook store
StoredAttachments ==
    {Attachment(data, fileData, file_path, document_id) :
        data \in {Nothing, Some(B64("A")), Some(BadB64)},
        fileData \in {Nothing, Some(B64("B"))},
        file_path \in {Nothing, Some("p1")},
        document_id \in {Nothing, Some("d1"), Some("d9")}}

\* the documents common_document_routes and MongoDB.create_common_document store
CommonDocuments ==
    {[file_path |-> Some("p2"), file_data |-> Nothing],
     [file_path |-> Nothing, file_data |-> Some(B64("E"))]}

\* the files the upload folder may hold
DiskFiles == [p1 |-> "C", p2 |-> "D"]

\* os.path.exists(path) and open(path, 'rb').read()
ReadFile(path) == IF path \in DOMAIN disk THEN Some(disk[path]) ELSE Nothing

\* attachment.get('data') or attachment.get('fileData'), decoded
Inline(attachment) ==
    IF attachment.data # Nothing THEN Decode(attachment.data[1])
    ELSE IF attachment.fileData # Nothing THEN Decode(attachment.fileData[1])
    ELSE Nothing

\* the file at attachment['file_path']
OnDisk(attachment) ==
    IF attachment.file_path # Nothing THEN ReadFile(attachment.file_path[1]) ELSE Nothing

\* db.common_documents.find_one({'_id': ObjectId(doc_id)}) and the file at its file_path
DocumentFile(attachment) ==
    IF /\ attachment.document_id # Nothing
       /\ attachment.document_id[1] \in DOMAIN common_documents
       /\ common_documents[attachment.document_id[1]].file_path # Nothing
    THEN ReadFile(common_documents[attachment.document_id[1]].file_path[1])
    ELSE Nothing

\* doc['file_data'] of the common document, decoded
DocumentData(attachment) ==
    IF /\ attachment.document_id # Nothing
       /\ attachment.document_id[1] \in DOMAIN common_documents
       /\ common_documents[attachment.document_id[1]].file_data # Nothing
    THEN Decode(common_documents[attachment.document_id[1]].file_data[1])
    ELSE Nothing

\* the first of the sources that has bytes
FirstOf(sources) ==
    IF \E i \in DOMAIN sources : sources[i] # Nothing
    THEN sources[CHOOSE i \in DOMAIN sources :
                    sources[i] # Nothing /\ \A j \in 1..(i - 1) : sources[j] = Nothing]
    ELSE Nothing

\* what a download route answers: a JSON error, or the file
DownloadAnswer(op, code, error, content) ==
    [op |-> op, code |-> code, error |-> error, content |-> content]

\* make_response(file_data), or 404 when no source had bytes
Serve(op, file_data) ==
    IF file_data = Nothing
    THEN DownloadAnswer(op, 404, "Attachment data not available", None)
    ELSE DownloadAnswer(op, 200, "", file_data[1])

\* the checks both reply routes start with; ObjectId(reply_id) raises on a
\* malformed id and the handler answers 500
ReplyLookup(op, session, reply_id, attachment_index, found) ==
    IF ~is_authenticated(session)
    THEN DownloadAnswer(op, 401, "Authentication required", None)
    ELSE IF reply_id.kind # "id" THEN DownloadAnswer(op, 500, "InvalidId", None)
    ELSE IF reply_id.id \notin DOMAIN replies
    THEN DownloadAnswer(op, 404, "Reply not found", None)
    ELSE IF attachment_index >= Len(replies[reply_id.id].attachments)
    THEN DownloadAnswer(op, 404, "Attachment not found", None)
    ELSE found

\* GET /api/replies/<reply_id>/attachments/<index>/download
LegacyReplyAnswer(session, reply_id, attachment_index) ==
    ReplyLookup("download_reply_attachment_legacy", session, reply_id, attachment_index,
        Serve("download_reply_attachment_legacy",
              Inline(replies[reply_id.id].attachments[attachment_index + 1])))

\* GET /api/attachments/reply/<reply_id>/<index>
ReplyAnswer2(session, reply_id, attachment_index) ==
    ReplyLookup("download_reply_attachment", session, reply_id, attachment_index,
        LET attachment == replies[reply_id.id].attachments[attachment_index + 1]
        IN Serve("download_reply_attachment",
                 FirstOf(<<DocumentFile(attachment), DocumentData(attachment),
                           OnDisk(attachment), Inline(attachment)>>)))

\* the checks both ticket routes start with
TicketLookup(op, session, ticket_id, attachment_index, found) ==
    IF ~is_authenticated(session)
    THEN DownloadAnswer(op, 401, "Authentication required", None)
    ELSE IF ticket_id \notin DOMAIN tickets
    THEN DownloadAnswer(op, 404, "Ticket not found", None)
    ELSE IF attachment_index >= Len(tickets[ticket_id].attachments)
    THEN DownloadAnswer(op, 404, "Attachment not found", None)
    ELSE found

\* GET /api/tickets/<ticket_id>/attachments/<index>/download
TicketDownloadAnswer(session, ticket_id, attachment_index) ==
    TicketLookup("download_ticket_attachment", session, ticket_id, attachment_index,
        LET attachment == tickets[ticket_id].attachments[attachment_index + 1]
        IN Serve("download_ticket_attachment",
                 FirstOf(<<Inline(attachment), OnDisk(attachment),
                           DocumentFile(attachment)>>)))

\* GET /api/attachments/ticket/<ticket_id>/<index>
AttachmentDownloadAnswer(session, ticket_id, attachment_index) ==
    TicketLookup("download_attachment", session, ticket_id, attachment_index,
        LET attachment == tickets[ticket_id].attachments[attachment_index + 1]
        IN Serve("download_attachment",
                 FirstOf(<<Inline(attachment), OnDisk(attachment)>>)))

\* a download reads; it changes nothing but the answer
Download(answer) ==
    /\ resp' = answer
    /\ UNCHANGED <<processVars, now, tickets, replies, ticket_assignments,
                   ticket_metadata, members, next_oid>>

download_reply_attachment_legacy(session, reply_id, attachment_index) ==
    Download(LegacyReplyAnswer(session, reply_id, attachment_index))

download_reply_attachment(session, reply_id, attachment_index) ==
    Download(ReplyAnswer2(session, reply_id, attachment_index))

download_ticket_attachment(session, ticket_id, attachment_index) ==
    Download(TicketDownloadAnswer(session, ticket_id, attachment_index))

download_attachment(session, ticket_id, attachment_index) ==
    Download(AttachmentDownloadAnswer(session, ticket_id, attachment_index))

DownloadSessions == {NoSession, SessionOf("m2")}
DownloadReplyIds == {GoodId(1), GoodId(2), BadId}
AttachmentIndexes == {0, 1}

\* one ticket and one reply of it hold the same stored attachment; the upload
\* folder holds any of the files; the common document d1 is stored in either form
InitDownloads ==
    /\ \E attachment \in StoredAttachments :
          /\ tickets = [t \in {"T1"} |-> NewTicket @@ [attachments |-> <<attachment>>]]
          /\ replies = 1 :> [ticket_id |-> "T1", message |-> TextHi,
                             sender_type |-> "agent", attachments |-> <<attachment>>,
                             created_at |-> 0]
    /\ \E paths \in SUBSET DOMAIN DiskFiles : disk = [x \in paths |-> DiskFiles[x]]
    /\ \E doc \in CommonDocuments : common_documents = "d1" :> doc
    /\ now = 0
    /\ ticket_assignments = <<>>
    /\ ticket_metadata = {}
    /\ members = InitMembers
    /\ next_oid = 2
    /\ resp = NoAnswer
    /\ clock = 0
    /\ threads = [t \in Threads |-> Idle]
    /\ _cache_storage = EmptyMap
    /\ _cache_lock = NoThread
    /\ cache_latest = EmptyMap
    /\ _rate_limit_storage = EmptyMap
    /\ _rate_limit_lock = NoThread
    /\ allowed = <<>>
    /\ flask_session = EmptySession
    /\ _webhook_status = EmptyMap
    /\ _webhook_lock = NoThread

NextDownloads ==
    \/ \E session \in DownloadSessions, reply_id \in DownloadReplyIds,
          attachment_index \in AttachmentIndexes :
            download_reply_attachment_legacy(session, reply_id, attachment_index)
    \/ \E session \in DownloadSessions, reply_id \in DownloadReplyIds,
          attachment_index \in AttachmentIndexes :
            download_reply_attachment(session, reply_id, attachment_index)
    \/ \E session \in DownloadSessions, ticket_id \in {"T1", UnknownTicketId},
          attachment_index \in AttachmentIndexes :
            download_ticket_attachment(session, ticket_id, attachment_index)
    \/ \E session \in DownloadSessions, ticket_id \in {"T1", UnknownTicketId},
          attachment_index \in AttachmentIndexes :
            download_attachment(session, ticket_id, attachment_index)

SpecDownloads == InitDownloads /\ [][NextDownloads]_vars

----------------------------------------------------------------------------
(* MongoDB.assign_ticket, one database operation at a time *)

MaxAssignCalls == 3

AssignFrame == UNCHANGED <<now, tickets, replies, ticket_metadata, members, clock,
                           cacheVars, rateVars, flask_session, fileVars, hookVars>>

AssignmentData ==
    {[ticket_id |-> t, member_id |-> Str(m), forwarded_from |-> NoneV,
      is_forwarded |-> FALSE, is_seen |-> TRUE] : t \in TicketIds, m \in {"m1", "m2"}}

\* a request thread enters MongoDB.assign_ticket with its assignment_data
AssignCall(t, assignment_data) ==
    /\ threads[t].pc = "idle"
    /\ next_oid <= MaxAssignCalls
    /\ threads' = [threads EXCEPT ![t] =
            [pc |-> "find_one", assignment_data |-> assignment_data]]
    /\ UNCHANGED <<ticket_assignments, next_oid, resp>>
    /\ AssignFrame

\* existing = ticket_assignments.find_one({"ticket_id": ticket_id})
AssignFindOne(t) ==
    /\ threads[t].pc = "find_one"
    /\ LET existing == FirstAssignment(ticket_assignments,
                                       threads[t].assignment_data.ticket_id)
       IN threads' = [threads EXCEPT ![t].pc =
                          IF existing # 0 THEN "delete_one" ELSE "insert_one"]
    /\ UNCHANGED <<ticket_assignments, next_oid, resp>>
    /\ AssignFrame

\* ticket_assignments.delete_one({"ticket_id": ticket_id}): the first match, if
\* one is still there
AssignDeleteOne(t) ==
    /\ threads[t].pc = "delete_one"
    /\ LET n == FirstAssignment(ticket_assignments,
                                threads[t].assignment_data.ticket_id)
       IN ticket_assignments' =
            IF n = 0 THEN ticket_assignments
            ELSE SubSeq(ticket_assignments, 1, n - 1)
                     \o SubSeq(ticket_assignments, n + 1, Len(ticket_assignments))
    /\ threads' = [threads EXCEPT ![t].pc = "insert_one"]
    /\ UNCHANGED <<next_oid, resp>>
    /\ AssignFrame

\* result = ticket_assignments.insert_one(assignment_data): the index on
\* (ticket_id, member_id) is not unique, the insert always succeeds
AssignInsertOne(t) ==
    /\ threads[t].pc = "insert_one"
    /\ ticket_assignments' = Append(ticket_assignments,
            threads[t].assignment_data @@ [_id |-> next_oid])
    /\ next_oid' = next_oid + 1
    /\ threads' = [threads EXCEPT ![t] =
            [pc |-> "verification", assignment_data |-> threads[t].assignment_data,
             inserted_id |-> next_oid]]
    /\ UNCHANGED resp
    /\ AssignFrame

\* verification = find_one({"_id": result.inserted_id}); return or raise
AssignVerification(t) ==
    /\ threads[t].pc = "verification"
    /\ LET verification ==
              \E n \in 1..Len(ticket_assignments) :
                  /\ "_id" \in DOMAIN ticket_assignments[n]
                  /\ ticket_assignments[n]._id = threads[t].inserted_id
       IN resp' = [op |-> "MongoDB.assign_ticket",
                   ticket_id |-> threads[t].assignment_data.ticket_id,
                   success |-> verification,
                   message |-> IF verification THEN ""
                               ELSE "Assignment failed: Assignment verification failed - record not found after insert"]
    /\ threads' = [threads EXCEPT ![t] = Idle]
    /\ UNCHANGED <<ticket_assignments, next_oid>>
    /\ AssignFrame

NextAssign ==
    \/ \E t \in Threads, assignment_data \in AssignmentData :
          AssignCall(t, assignment_data)
    \/ \E t \in Threads : AssignFindOne(t)
    \/ \E t \in Threads : AssignDeleteOne(t)
    \/ \E t \in Threads : AssignInsertOne(t)
    \/ \E t \in Threads : AssignVerification(t)

SpecAssign == InitWebhook /\ [][NextAssign]_vars

----------------------------------------------------------------------------
(* The Tech Director webhook worker and its status dict *)

max_retries == 3

HookFrame == UNCHANGED <<now, tickets, replies, ticket_assignments, ticket_metadata,
                         members, next_oid, clock, cacheVars, rateVars,
                         flask_session, fileVars>>

\* what requests.post does: answers 200, answers another status, or raises
\* (connection error, the 30 second timeout, a payload json cannot encode)
PostResults == {"200", "500", "exception"}

\* _webhook_status[ticket_id] = {'status': status, ...} inside `with _webhook_lock`
SetStatus(ticket_id, status) ==
    /\ CanAcquire(_webhook_lock)
    /\ _webhook_status' = With(_webhook_status, ticket_id, [status |-> status])
    /\ UNCHANGED _webhook_lock

\* `for attempt in range(max_retries)` with one more round
LoopContinuesOnceMore(attempt) == attempt < max_retries

\* `for attempt in range(max_retries)`: there is a round after this one
LoopContinues(attempt) == attempt + 1 < max_retries

\* threading.Thread(target=webhook_worker, daemon=True).start()
_trigger_tech_director_webhook_async(t, ticket_id) ==
    /\ threads[t].pc = "idle"
    /\ threads' = [threads EXCEPT ![t] =
            [pc |-> "set_pending", ticket_id |-> ticket_id, attempt |-> 0,
             posts |-> 0, got_200 |-> FALSE, wrote |-> None]]
    /\ UNCHANGED <<hookVars, resp>>
    /\ HookFrame

\* the worker writes 'pending'
WorkerSetPending(t) ==
    /\ threads[t].pc = "set_pending"
    /\ SetStatus(threads[t].ticket_id, "pending")
    /\ threads' = [threads EXCEPT ![t].pc = "post", ![t].wrote = "pending"]
    /\ UNCHANGED resp
    /\ HookFrame

\* one requests.post of the loop and what the loop does with its result
WorkerPost(t, result) ==
    /\ threads[t].pc = "post"
    /\ LET attempt == threads[t].attempt IN
       threads' = [threads EXCEPT
            ![t].posts = @ + 1,
            ![t].got_200 = (result = "200"),
            ![t].attempt = IF result = "500" /\ LoopContinues(attempt)
                           THEN attempt + 1 ELSE attempt,
            ![t].pc = IF result = "200" THEN "set_success"
                      ELSE IF result = "exception" /\ attempt < max_retries - 1
                           THEN "sleep"
                      ELSE IF LoopContinues(attempt) THEN "post"
                      ELSE "set_failed"]
    /\ UNCHANGED <<hookVars, resp>>
    /\ HookFrame

\* time.sleep(retry_delay), then the next round
WorkerSleep(t) ==
    /\ threads[t].pc = "sleep"
    /\ threads' = [threads EXCEPT
            ![t].attempt = @ + 1,
            ![t].pc = IF LoopContinues(threads[t].attempt) THEN "post"
                      ELSE "set_failed"]
    /\ UNCHANGED <<hookVars, resp>>
    /\ HookFrame

\* status 200: the worker writes 'success'
WorkerSetSuccess(t) ==
    /\ threads[t].pc = "set_success"
    /\ SetStatus(threads[t].ticket_id, "success")
    /\ threads' = [threads EXCEPT ![t].pc = "return", ![t].wrote = "success"]
    /\ UNCHANGED resp
    /\ HookFrame

\* the loop ran out: the worker writes 'failed'
WorkerSetFailed(t) ==
    /\ threads[t].pc = "set_failed"
    /\ SetStatus(threads[t].ticket_id, "failed")
    /\ threads' = [threads EXCEPT ![t].pc = "return", ![t].wrote = "failed"]
    /\ UNCHANGED resp
    /\ HookFrame

\* the worker function returns, the thread ends
WorkerReturn(t) ==
    /\ threads[t].pc = "return"
    /\ threads' = [threads EXCEPT ![t] = Idle]
    /\ UNCHANGED <<hookVars, resp>>
    /\ HookFrame

\* the steps of the worker that runs in thread t
webhook_worker(t) ==
    \/ WorkerSetPending(t)
    \/ \E result \in PostResults : WorkerPost(t, result)
    \/ WorkerSleep(t)
    \/ WorkerSetSuccess(t)
    \/ WorkerSetFailed(t)
    \/ WorkerReturn(t)

\* GET /api/webhook/status/<ticket_id>
get_webhook_status(ticket_id) ==
    /\ CanAcquire(_webhook_lock)
    /\ resp' = [op |-> "get_webhook_status", code |-> 200, ticket_id |-> ticket_id,
                success |-> TRUE,
                status |-> IF ticket_id \in DOMAIN _webhook_status
                           THEN _webhook_status[ticket_id].status ELSE "unknown"]
    /\ UNCHANGED <<hookVars, threads>>
    /\ HookFrame

\* POST /api/webhook/cleanup by an administrator
webhook_cleanup ==
    /\ CanAcquire(_webhook_lock)
    /\ _webhook_status # EmptyMap
    /\ _webhook_status' = EmptyMap
    /\ UNCHANGED <<_webhook_lock, threads, resp>>
    /\ HookFrame

NextHook ==
    \/ \E t \in Threads, ticket_id \in TicketIds :
          _trigger_tech_director_webhook_async(t, ticket_id)
    \/ \E t \in Threads : webhook_worker(t)
    \/ \E ticket_id \in TicketIds : get_webhook_status(ticket_id)
    \/ webhook_cleanup

\* a started thread is scheduled; requests.post returns or raises within its
\* timeout, time.sleep returns, _webhook_lock is held only for one assignment
SpecHook ==
    /\ InitWebhook
    /\ [][NextHook]_vars
    /\ \A t \in Threads : WF_vars(webhook_worker(t))

----------------------------------------------------------------------------
(* Claims about POST /api/webhook/reply *)

\* a field of the payload holds text
FieldHasText(field) == field # Nothing /\ Strip(field[1]) # <<>>

\* no accepted field of the payload holds message text
NoMessageText(req) ==
    /\ ~FieldHasText(req.body)
    /\ ~FieldHasText(req.message)
    /\ ~(req.html # Nothing /\ html_to_text(req.html[1]) # <<>>)

\* the payloads with a JSON body, a ticket_id and message text
RequestsWithText ==
    {req \in WebhookRequests \cup TimedRequests :
        req.has_data /\ req.ticket_id # None /\ ~NoMessageText(req)}

\* the payloads without a JSON body, without ticket_id or without message text
RequestsWithout == (WebhookRequests \cup TimedRequests) \ RequestsWithText

\* the payload passes the handler's validation: a JSON body with a ticket_id of
\* a stored ticket and message text
ValidRequest(req) ==
    /\ req \in RequestsWithText
    /\ req.ticket_id \in DOMAIN tickets

\* the stored replies of the request's ticket that an id of the payload names
NamedBy(id, req) ==
    {i \in DOMAIN replies : id.kind = "id" /\ i = id.id /\ replies[i].ticket_id = req.ticket_id}

\* the id the handler reads: reply_id only when the payload has no portal_reply_id key
EffectiveId(req) ==
    IF req.portal_reply_id.kind = "absent" THEN req.reply_id ELSE req.portal_reply_id

IdempotentAnswer(ids) ==
    /\ resp'.success
    /\ resp'.idempotent
    /\ resp'.reply_id \in ids
    /\ replies' = replies

\* C1 (as amended): if a request that passes validation carries a portal_reply_id,
\* or, having no portal_reply_id key at all, a reply_id, that names a reply stored
\* for the same ticket_id, the call answers success with idempotent = true and that
\* reply's id, creates no reply and changes no existing reply.
C1_IdempotentByReplyId ==
    [][\A req \in WebhookRequests :
          (/\ ValidRequest(req)
           /\ NamedBy(EffectiveId(req), req) # {}
           /\ webhook_reply(req))
          => IdempotentAnswer(NamedBy(EffectiveId(req), req))]_vars

\* C1 witness: a request was answered idempotent because of the reply id it carries
C1_Witness ==
    /\ resp.log = "IDEMPOTENT reply id"
    /\ resp.idempotent
    /\ resp.reply_id \in DOMAIN replies
    /\ replies[resp.reply_id].ticket_id = resp.ticket_id

\* C1 as stated: a portal_reply_id or a reply_id that names a stored reply of the
\* ticket is enough (here even for a request that passes validation)
C1_AsStated ==
    [][\A req \in WebhookRequests :
          (/\ ValidRequest(req)
           /\ NamedBy(req.portal_reply_id, req) \cup NamedBy(req.reply_id, req) # {}
           /\ webhook_reply(req))
          => IdempotentAnswer(NamedBy(req.portal_reply_id, req)
                              \cup NamedBy(req.reply_id, req))]_vars

\* the replies stored on the request's ticket during the last DupWindowMinutes
\* minutes whose message, trimmed, is the request's message
SameMessageReplies(req) ==
    {i \in DOMAIN replies :
        /\ replies[i].ticket_id = req.ticket_id
        /\ now - replies[i].created_at <= DupWindowMinutes
        /\ Strip(replies[i].message) = Strip(SelectMessage(req))}

\* those of them an agent sent that are among the DupScanLimit newest agent replies
\* of the window
ScannedAgentDuplicates(req) ==
    {i \in SameMessageReplies(req) :
        /\ replies[i].sender_type = "agent"
        /\ Cardinality({j \in DOMAIN replies :
                           /\ replies[j].ticket_id = req.ticket_id
                           /\ replies[j].sender_type = "agent"
                           /\ now - replies[j].created_at <= DupWindowMinutes
                           /\ replies[j].created_at >= replies[i].created_at
                           /\ j # i}) < DupScanLimit}

\* C2 (as amended): if one of the five newest replies of sender_type 'agent' stored
\* on the ticket during the last 2 minutes has the same trimmed message, a request
\* that passes validation creates no reply and is answered success with
\* idempotent = true and the id of such a reply, or of the reply its
\* portal_reply_id names.
C2_IdempotentBySameMessage ==
    [][\A req \in TimedRequests :
          (/\ ValidRequest(req)
           /\ ScannedAgentDuplicates(req) # {}
           /\ webhook_reply(req))
          => IdempotentAnswer(ScannedAgentDuplicates(req)
                              \cup NamedBy(EffectiveId(req), req))]_vars

\* C2 witness: the answer names an agent reply whose stored message differs from
\* the request's only by surrounding whitespace
C2_Witness ==
    /\ resp.log = "IDEMPOTENT same message"
    /\ resp.reply_id \in DOMAIN replies
    /\ replies[resp.reply_id].message = TextHiPadded
    /\ replies[resp.reply_id].sender_type = "agent"

\* C2 as stated: any reply with the same trimmed message stored on the ticket in
\* the last 2 minutes makes the call idempotent
C2_AsStated ==
    [][\A req \in TimedRequests :
          (/\ ValidRequest(req)
           /\ SameMessageReplies(req) # {}
           /\ webhook_reply(req))
          => IdempotentAnswer(SameMessageReplies(req)
                              \cup NamedBy(EffectiveId(req), req))]_vars

\* the request was accepted: a success answer that is not marked idempotent
Accepted == resp'.op = "webhook_reply" /\ resp'.success /\ ~resp'.idempotent

\* the accepted message with quoted email history removed
AcceptedMessage(req) == Strip(strip_email_quotes(SelectMessage(req)))

\* C3 (as amended): after webhook_reply accepts a message, the reply named by the
\* returned reply_id is returned by get_replies_by_ticket for that ticket_id; its
\* message is the accepted message with quoted email history removed if the reply
\* is new, or if it is an existing reply the attachments were merged into and the
\* accepted message is longer than its stored message; otherwise the existing
\* reply keeps its stored message.
C3_AcceptedMessageStored ==
    [][\A req \in WebhookRequests :
          (Accepted /\ webhook_reply(req))
          => /\ resp'.reply_id \in get_replies_by_ticket(replies', req.ticket_id)
             /\ replies'[resp'.reply_id].message =
                  IF resp'.reply_id \notin DOMAIN replies
                     \/ TextLen(AcceptedMessage(req)) >
                          TextLen(Strip(replies[resp'.reply_id].message))
                  THEN AcceptedMessage(req)
                  ELSE replies[resp'.reply_id].message]_vars

\* C3 witness: attachments were merged into a reply whose message is longer than
\* the one just accepted
C3_Witness ==
    /\ resp.log = "ATTACHMENTS MERGED"
    /\ replies[resp.reply_id].message = TextThanks
    /\ \E i \in DOMAIN replies : i # resp.reply_id /\ replies[i].sender_type = "webhook"

\* C3 as stated: the stored message is always the accepted message with quoted
\* email history removed
C3_AsStated ==
    [][\A req \in WebhookRequests :
          (Accepted /\ webhook_reply(req))
          => /\ resp'.reply_id \in get_replies_by_ticket(replies', req.ticket_id)
             /\ replies'[resp'.reply_id].message = AcceptedMessage(req)]_vars

\* the payload holds a list with at least one attachment
ReceivesAttachments(req) == req.attachments.kind = "list" /\ req.attachments.items # <<>>

\* the replies of the ticket with sender_type 'webhook' created within the last
\* MergeWindowMinutes minutes that have no attachments
EmptyWebhookReplies(req) ==
    {i \in DOMAIN replies :
        /\ replies[i].ticket_id = req.ticket_id
        /\ replies[i].sender_type = "webhook"
        /\ now - replies[i].created_at <= MergeWindowMinutes
        /\ replies[i].attachments = <<>>}

\* the attachment names the handler keeps: of objects and strings
KeptAttachments(req) ==
    [n \in 1..Len(SelectSeq(req.attachments.items, LAMBDA a : a.kind \in {"dict", "str"})) |->
        LET a == SelectSeq(req.attachments.items, LAMBDA b : b.kind \in {"dict", "str"})[n]
        IN IF a.kind = "str" THEN "attachment.txt"
           ELSE IF a.filename = None THEN "attachment" ELSE a.filename]

\* C4 (as amended): when a request that passes validation and is not answered
\* idempotent carries at least one attachment given as an object or a string, and
\* the ticket has replies with sender_type 'webhook' created within the last 5
\* minutes that have no attachments, the attachments are stored on a newest such
\* reply and the replies of the ticket stay the same in number.
C4_AttachmentsMerged ==
    [][\A req \in TimedRequests :
          (/\ ValidRequest(req)
           /\ ReceivesAttachments(req)
           /\ KeptAttachments(req) # <<>>
           /\ EmptyWebhookReplies(req) # {}
           /\ webhook_reply(req)
           /\ ~resp'.idempotent)
          => /\ DOMAIN replies' = DOMAIN replies
             /\ \E i \in EmptyWebhookReplies(req) :
                   /\ \A j \in EmptyWebhookReplies(req) :
                         replies[i].created_at >= replies[j].created_at
                   /\ replies'[i].attachments = KeptAttachments(req)
                   /\ resp'.reply_id = i
                   /\ \A j \in DOMAIN replies \ {i} : replies'[j] = replies[j]]_vars

\* C4 witness: attachments were merged into a reply that is older than another
\* reply of the ticket
C4_Witness ==
    /\ resp.log = "ATTACHMENTS MERGED"
    /\ replies[resp.reply_id].attachments = <<"a.pdf">>
    /\ replies[resp.reply_id].created_at < now

\* C4 as stated: attachments and a recent 'webhook' reply without attachments are
\* enough for the merge
C4_AsStated ==
    [][\A req \in TimedRequests :
          (/\ ValidRequest(req)
           /\ ReceivesAttachments(req)
           /\ EmptyWebhookReplies(req) # {}
           /\ webhook_reply(req))
          => /\ DOMAIN replies' = DOMAIN replies
             /\ \E i \in EmptyWebhookReplies(req) :
                   replies'[i].attachments = KeptAttachments(req)]_vars

----------------------------------------------------------------------------
(* Claims about forwarding *)

\* the forms in which a member id is handed to get_forwarded_tickets_to_user:
\* the string, and the ObjectId where the string is one
MemberIdForms(m) == {Str(m)} \cup (IF m \in ObjectIdStrings THEN {Oid(m)} ELSE {})

\* the ticket is forwarded to member m, and the member's query returns it
ForwardedTo(ticket_id, m) ==
    /\ ticket_id \in DOMAIN tickets'
    /\ tickets'[ticket_id].is_forwarded = TRUE
    /\ tickets'[ticket_id].forwarded_to.v = m
    /\ \A member_id \in MemberIdForms(m) :
          ticket_id \in get_forwarded_tickets_to_user(tickets', member_id)

C7_AsStated ==
    [][\A session \in Callers, ticket_id \in ForwardTicketIds :
          (refer_to_tech_director(session, ticket_id) /\ resp'.success)
          => /\ ticket_id \in DOMAIN tickets'
             /\ tickets'[ticket_id].referred_to_director = TRUE
             /\ tickets'[ticket_id].forwarded_by.v = session.member_id
             /\ \E tech_director \in ActiveTechDirectors(members) :
                   ForwardedTo(ticket_id, tech_director)]_vars

----------------------------------------------------------------------------
(* Claims about sessions and roles *)

\* one of the model's route handlers that write to a ticket document, none of
\* them an inbound n8n endpoint, is called with a session that holds no member_id
CalledWithoutMemberId ==
    \/ \E ticket_id \in ForwardTicketIds, is_forwarded \in BOOLEAN,
          assigned_to \in ForwardTargets :
            assign_ticket(NoSession, ticket_id, is_forwarded, assigned_to)
    \/ \E ticket_id \in ForwardTicketIds : refer_to_tech_director(NoSession, ticket_id)
    \/ \E ticket_id \in ForwardTicketIds : toggle_ticket_importance(NoSession, ticket_id)
    \/ \E ticket_id \in ForwardTicketIds, vhc_link \in VhcLinks :
            update_vehicle_info(NoSession, ticket_id, vhc_link)

\* C8 as stated: a request whose session holds no member_id changes no ticket
\* document, whichever route handler that writes to tickets it calls.
C8_AsStated ==
    [][CalledWithoutMemberId => tickets' = tickets]_vars

\* the administrator roles
AdministratorRoles == {"Administrator", "Admin", "admin"}

\* C9: delete_ticket and bulk_delete_tickets remove a ticket only when the
\* caller's session role is an administrator role; for every other caller the call
\* answers 401 or 403 and removes no ticket and no reply.
C9_OnlyAdministratorsDelete ==
    [][/\ \A session \in Sessions, ticket_id \in RouteTicketIds :
            (/\ session.member_role \notin AdministratorRoles
             /\ resp'.op = "delete_ticket"
             /\ delete_ticket(session, ticket_id))
            => (resp'.code \in {401, 403} /\ tickets' = tickets /\ replies' = replies)
       /\ \A session \in Sessions, ticket_ids \in SUBSET (TicketIds \cup {UnknownTicketId}) :
            (/\ session.member_role \notin AdministratorRoles
             /\ resp'.op = "bulk_delete_tickets"
             /\ bulk_delete_tickets(session, ticket_ids))
            => (resp'.code \in {401, 403} /\ tickets' = tickets /\ replies' = replies)]_vars

\* C9 witness: a member who is no administrator was refused while a ticket with a
\* reply was stored, after an administrator had deleted the other ticket
C9_Witness ==
    /\ resp.op \in {"delete_ticket", "bulk_delete_tickets"}
    /\ resp.code = 403
    /\ DOMAIN tickets = {"T1"}
    /\ \E i \in DOMAIN replies : replies[i].ticket_id = "T1"

\* C10 as stated: after a ticket is deleted no reply, assignment or metadata
\* document with its ticket_id remains.
C10_AsStated ==
    [][\A ticket_id \in TicketIds :
          (ticket_id \in DOMAIN tickets /\ ticket_id \notin DOMAIN tickets')
          => /\ \A i \in DOMAIN replies' : replies'[i].ticket_id # ticket_id
             /\ \A n \in 1..Len(ticket_assignments') :
                   ticket_assignments'[n].ticket_id # ticket_id
             /\ \A d \in ticket_metadata' : d.ticket_id # ticket_id]_vars

----------------------------------------------------------------------------
(* Claims about the in-memory cache and the rate limiter *)

\* C11: in every interleaving of cache_get, cache_set, cache_delete and
\* cache_clear calls, a cache_get(key) that returns gives the default or the
\* value of the latest cache_set(key) that was not deleted or cleared since and
\* whose expiry time has not passed when the call compares it.
C11_CacheGetReturnsLatest ==
    [][\A t \in Threads :
          (/\ resp'.op = "cache_get"
           /\ threads'[t] = Idle
           /\ CacheGetLookup(t) \/ CacheGetCheck(t))
          => \/ resp'.value = Default
             \/ /\ threads[t].key \in DOMAIN cache_latest
                /\ cache_latest[threads[t].key].value = resp'.value
                /\ clock < cache_latest[threads[t].key].expires]_vars

\* a cache_get returned a cached value while the other thread was waiting for
\* the lock to delete the same key
C11_Witness ==
    /\ resp.op = "cache_get"
    /\ resp.value \in CacheValues
    /\ \E u \in Threads :
          /\ threads[u].pc = "acquire"
          /\ threads[u].op = "cache_delete"
          /\ threads[u].key = resp.key

\* the calls for (key, limit, window) that returned True with a clock reading in
\* the `window` seconds from `start`
AllowedWithin(key, limit, window, start) ==
    {i \in DOMAIN allowed :
        /\ allowed[i].key = key /\ allowed[i].limit = limit
        /\ allowed[i].window = window
        /\ start <= allowed[i].time /\ allowed[i].time < start + window}

\* C13 as stated: for every key, rate_limit_check(key, limit, window) returns
\* True for at most `limit` calls within any time span shorter than `window`
\* seconds, also when calls for the key run concurrently.
C13_AsStated ==
    \A key \in RateKeys, limit \in RateLimits, window \in RateWindows,
       start \in 0..MaxClock :
        Cardinality(AllowedWithin(key, limit, window, start)) <= limit

----------------------------------------------------------------------------
(* Claims about the session refresh *)

\* a call of refresh_session that replaced a _last_refresh the session already had
RefreshRewrites ==
    /\ \E delay \in 0..MaxDelay : refresh_session(delay)
    /\ flask_session._last_refresh # Nothing
    /\ flask_session'._last_refresh # flask_session._last_refresh

\* C12: refresh_session replaces _last_refresh only when its second clock
\* reading is more than 300 seconds after the stored value and the minute differs;
\* it writes its first clock reading, so two consecutive values are more than 300
\* seconds apart less the time between the two readings of the writing call.
C12_RefreshThrottled ==
    [][RefreshRewrites
       => /\ flask_session'._last_refresh = Some(clock)
          /\ clock' - flask_session._last_refresh[1] > RefreshSeconds
          /\ MinutePortion(clock) # MinutePortion(flask_session._last_refresh[1])]_vars

\* a second write of _last_refresh, exactly 300 seconds after the first
C12_Witness ==
    /\ resp.op = "refresh_session"
    /\ resp.wrote
    /\ resp.previous # Nothing
    /\ flask_session._last_refresh[1] - resp.previous[1] = RefreshSeconds

\* C12 as stated: any two consecutive writes of _last_refresh are more than 300
\* seconds apart.
C12_AsStated ==
    [][RefreshRewrites
       => flask_session'._last_refresh[1] - flask_session._last_refresh[1]
             > RefreshSeconds]_vars

----------------------------------------------------------------------------
(* Claims about attachment downloads *)

\* C14 as stated: for every stored reply and every attachment index the legacy
\* route gives the same status code as download_reply_attachment, and the same
\* file content whenever the attachment is served.
C14_AsStated ==
    [][\A session \in DownloadSessions, reply_id \in DownloadReplyIds,
          attachment_index \in AttachmentIndexes :
            download_reply_attachment_legacy(session, reply_id, attachment_index)
            => /\ resp'.code = ReplyAnswer2(session, reply_id, attachment_index).code
               /\ resp'.content = ReplyAnswer2(session, reply_id, attachment_index).content]_vars

\* the attachment has bytes in one of its storage forms
YieldsData(attachment) ==
    \/ Inline(attachment) # Nothing
    \/ OnDisk(attachment) # Nothing
    \/ DocumentFile(attachment) # Nothing

\* C15 as stated: for an existing ticket and an index within range, a
\* ticket-attachment download answers 404 'Attachment data not available' only
\* when neither the inline base64, nor the file at file_path, nor the common
\* document named by document_id yields data.
C15_AsStated ==
    [][\A session \in DownloadSessions, ticket_id \in DOMAIN tickets :
          \A attachment_index \in 0..(Len(tickets[ticket_id].attachments) - 1) :
            (/\ \/ download_ticket_attachment(session, ticket_id, attachment_index)
                \/ download_attachment(session, ticket_id, attachment_index)
             /\ resp'.error = "Attachment data not available")
            => ~YieldsData(tickets[ticket_id].attachments[attachment_index + 1])]_vars

----------------------------------------------------------------------------
(* Claims about long messages *)

\* the text has no line strip_email_quotes takes for quoted history
NoQuoteLines(text) ==
    \A i \in 1..Len(text) :
        text[i] \notin {OnWroteLine, OnLine, WroteLine, OriginalLine, FromLine,
                        SentLine, SeparatorLine, QuotedLine}

----------------------------------------------------------------------------
(* Claims about the assignment collection *)

\* the documents of ticket_assignments that have the ticket_id
AssignmentsOf(ticket_id) ==
    {n \in 1..Len(ticket_assignments) : ticket_assignments[n].ticket_id = ticket_id}

\* C17 as stated: once every call of MongoDB.assign_ticket has returned,
\* ticket_assignments holds at most one document per ticket_id.
C17_AsStated ==
    (\A t \in Threads : threads[t].pc = "idle")
    => \A ticket_id \in TicketIds : Cardinality(AssignmentsOf(ticket_id)) <= 1

----------------------------------------------------------------------------
(* Claims about the Tech Director webhook worker *)

Running(t) == threads[t].pc # "idle"

\* C18: every worker makes at most three POST attempts and then stops; when it
\* stops the last status it wrote for its ticket is 'success' if an attempt got
\* 200 and 'failed' otherwise, and an entry of its ticket that still says
\* 'pending' was written by another worker that is still running.
C18_WorkerFinishes ==
    /\ [](\A t \in Threads : Running(t) => threads[t].posts <= 3)
    /\ [][\A t \in Threads :
            WorkerReturn(t)
            => /\ threads[t].wrote = IF threads[t].got_200 THEN "success" ELSE "failed"
               /\ (/\ threads[t].ticket_id \in DOMAIN _webhook_status
                   /\ _webhook_status[threads[t].ticket_id].status = "pending")
                  => \E u \in Threads \ {t} :
                        /\ threads[u].pc \in {"post", "sleep", "set_success",
                                              "set_failed"}
                        /\ threads[u].ticket_id = threads[t].ticket_id]_vars
    /\ \A t \in Threads : Running(t) ~> ~Running(t)

\* a worker about to stop after three attempts without a 200, and another
\* about to stop after a 200
C18_Witness ==
    /\ threads["th1"].pc = "return"
    /\ threads["th1"].posts = 3
    /\ threads["th1"].wrote = "failed"
    /\ threads["th2"].pc = "return"
    /\ threads["th2"].got_200
    /\ threads["th2"].wrote = "success"

====
